---- MODULE Spec2Model ----
(***************************************************************************)
(* Model of the readarr push client (pkg/arr/readarr/readarr.go) and of    *)
(* the PolishTracker indexer definition (polishtracker.yaml).              *)
(*                                                                         *)
(* Three specifications:                                                   *)
(*   PushSpec  - one Push invocation, responses drawn from every status    *)
(*               and every body shape up to MaxList elements;              *)
(*   Spec      - NumPush Push invocations interleaved on one Client        *)
(*               (LiveSpec adds the fairness the client timeout gives);    *)
(*   ParseSpec - one announce line matched against the definition's        *)
(*               pattern and its torrenturl template rendered.             *)
(***************************************************************************)
EXTENDS Integers, Sequences, FiniteSets, TLC

VARIABLES
    pc,        \* pc[i]: position of Push invocation i
    release,   \* release[i]: the Release argument of invocation i
    status,    \* status[i], res[i], err[i]: what c.postBody returned to i
    res,
    err,
    ret,       \* ret[i]: the ([]string, error) pair Push returned
    requests,  \* requests[i]: c.postBody calls invocation i has made
    log,       \* lines written through c.Log (shared by all invocations)
    phase,     \* position of the announce pipeline
    line,      \* the announce line, as a sequence of characters
    rsskey,    \* the operator's value of the rsskey setting
    matched,   \* result of matching line against the definition
    url        \* the rendered torrenturl

pushVars  == <<pc, release, status, res, err, ret, requests, log>>
parseVars == <<phase, line, rsskey, matched, url>>
vars      == <<pc, release, status, res, err, ret, requests, log,
               phase, line, rsskey, matched, url>>

(***************************************************************************)
(* Bounds.                                                                 *)
(***************************************************************************)
NumPush == 2    \* Push invocations running on the same Client
MaxList == 2    \* longest list in a response body

Pushes == 1..NumPush

StatusBadRequest   == 400
StatusUnauthorized == 401

Statuses == {200, 201, 202, StatusBadRequest, StatusUnauthorized, 500}

SeqsUpTo(S, n) == UNION {[1..k -> S] : k \in 0..n}

(***************************************************************************)
(* JSON values, as encoding/json sees a response body.                     *)
(***************************************************************************)
JInvalid == [kind |-> "invalid"]          \* not JSON at all (empty, HTML)
JAbsent  == [kind |-> "absent"]           \* a key that is not in the object
JNull    == [kind |-> "null"]
JBool(b) == [kind |-> "bool", val |-> b]
JStr(s)  == [kind |-> "string", val |-> s]
JList(s) == [kind |-> "list", items |-> s]
JObj(rejected, rejections, propertyName, errorMessage) ==
    [kind |-> "object", rejected |-> rejected, rejections |-> rejections,
     propertyName |-> propertyName, errorMessage |-> errorMessage]

Reasons == {"a", "b"}

RejectionObjects ==
    { JObj(JAbsent, JAbsent, JStr("title"), JStr("Unable to parse")),
      JObj(JAbsent, JAbsent, JStr("downloadUrl"), JAbsent) }

\* arrays: of rejection objects, and with an element that is no object
ListBodies ==
    { JList(s) : s \in SeqsUpTo(RejectionObjects \cup {JStr("x")}, MaxList) }

ObjectBodies ==
    { JObj(rj, rs, JAbsent, JAbsent) :
        rj \in {JAbsent, JBool(TRUE), JBool(FALSE), JStr("yes")},
        rs \in {JAbsent, JNull, JStr("a")}
               \cup { JList(s) : s \in SeqsUpTo({JStr(r) : r \in Reasons}, MaxList) } }
    \cup RejectionObjects

Bodies == {JInvalid, JNull} \cup ListBodies \cup ObjectBodies

Responses == Statuses \X Bodies

\* The responses the interleaved specification draws from: one of each case
\* of Push's decision.
ConcResponses ==
    { <<200, JObj(JBool(FALSE), JAbsent, JAbsent, JAbsent)>>,
      <<201, JObj(JBool(TRUE), JList(<<JStr("a"), JStr("b")>>), JAbsent, JAbsent)>>,
      <<200, JInvalid>>,
      <<StatusBadRequest,
        JList(<<JObj(JAbsent, JAbsent, JStr("title"), JStr("Unable to parse"))>>)>>,
      <<StatusBadRequest, JObj(JBool(FALSE), JAbsent, JAbsent, JAbsent)>>,
      <<StatusUnauthorized, JInvalid>>,
      <<500, JObj(JAbsent, JAbsent, JAbsent, JAbsent)>> }

\* What may come with an error of postBody in the interleaved specification: a
\* status and body that would read as Accepted, and one that would read as
\* Rejected.
ConcFailResponses ==
    { <<500, JObj(JAbsent, JAbsent, JAbsent, JAbsent)>>,
      <<StatusBadRequest,
        JList(<<JObj(JAbsent, JAbsent, JStr("title"), JStr("Unable to parse"))>>)>> }

Releases == {[Title |-> "Some.Book"], [Title |-> "Other.Book"]}

(***************************************************************************)
(* Go values.                                                              *)
(***************************************************************************)
NoErr == "nil"
Wrap(e, msg) == msg \o ": " \o e

\* A []string: nil, or a (possibly empty) slice.
NilSlice   == [nil |-> TRUE, items |-> <<>>]
Slice(s)   == [nil |-> FALSE, items |-> s]

NoReturn == [rejections |-> NilSlice, err |-> "not returned"]
NoRelease == [Title |-> ""]
NoBody == JInvalid

(***************************************************************************)
(* json.Unmarshal into the two response types.                             *)
(***************************************************************************)
\* a string field: JSON string, or null/absent (zero value "")
StringField(v) ==
    IF v.kind = "string" THEN [ok |-> TRUE, val |-> v.val]
    ELSE IF v.kind \in {"absent", "null"} THEN [ok |-> TRUE, val |-> ""]
    ELSE [ok |-> FALSE, val |-> ""]

\* a bool field: JSON bool, or null/absent (zero value false)
BoolField(v) ==
    IF v.kind = "bool" THEN [ok |-> TRUE, val |-> v.val]
    ELSE IF v.kind \in {"absent", "null"} THEN [ok |-> TRUE, val |-> FALSE]
    ELSE [ok |-> FALSE, val |-> FALSE]

\* a []string field: JSON list of strings, or null/absent (nil slice)
StringsField(v) ==
    IF v.kind = "list"
    THEN IF \A k \in 1..Len(v.items) : StringField(v.items[k]).ok
         THEN [ok |-> TRUE,
               val |-> Slice([k \in 1..Len(v.items) |-> StringField(v.items[k]).val])]
         ELSE [ok |-> FALSE, val |-> NilSlice]
    ELSE IF v.kind \in {"absent", "null"} THEN [ok |-> TRUE, val |-> NilSlice]
    ELSE [ok |-> FALSE, val |-> NilSlice]

\* BadRequestResponse: the structured rejection object of a 400 body
BadRequestResponse(v) ==
    IF v.kind = "object"
       /\ StringField(v.propertyName).ok /\ StringField(v.errorMessage).ok
    THEN [ok |-> TRUE,
          val |-> [PropertyName |-> StringField(v.propertyName).val,
                   ErrorMessage |-> StringField(v.errorMessage).val]]
    ELSE [ok |-> FALSE, val |-> [PropertyName |-> "", ErrorMessage |-> ""]]

\* (r *BadRequestResponse) String(): the human-readable description
String(r) == "[" \o r.PropertyName \o "] " \o r.ErrorMessage

\* json.Unmarshal(res, &badRequestResponses), badRequestResponses made empty
UnmarshalBadRequests(body) ==
    IF body.kind = "null" THEN [ok |-> TRUE, val |-> <<>>]
    ELSE IF body.kind = "list"
            /\ \A k \in 1..Len(body.items) : BadRequestResponse(body.items[k]).ok
    THEN [ok |-> TRUE,
          val |-> [k \in 1..Len(body.items) |-> BadRequestResponse(body.items[k]).val]]
    ELSE [ok |-> FALSE, val |-> <<>>]

ZeroPushResponse == [Rejected |-> FALSE, Rejections |-> NilSlice]

\* json.Unmarshal(res, &pushResponse), pushResponse the zero PushResponse
UnmarshalPushResponse(body) ==
    IF body.kind = "null" THEN [ok |-> TRUE, val |-> ZeroPushResponse]
    ELSE IF body.kind = "object"
            /\ BoolField(body.rejected).ok /\ StringsField(body.rejections).ok
    THEN [ok |-> TRUE,
          val |-> [Rejected |-> BoolField(body.rejected).val,
                   Rejections |-> StringsField(body.rejections).val]]
    ELSE [ok |-> FALSE, val |-> ZeroPushResponse]

(***************************************************************************)
(* Client.Push, after c.postBody has returned (status, res, err).          *)
(***************************************************************************)
RECURSIVE Join(_, _)
\* strings.Join(elems, sep)
Join(elems, sep) ==
    IF elems = <<>> THEN ""
    ELSE IF Len(elems) = 1 THEN elems[1]
    ELSE elems[1] \o sep \o Join(Tail(elems), sep)

\* RenderAll with each description put in front of the ones before it
RenderAllReversed(responses) ==
    [k \in 1..Len(responses) |-> String(responses[Len(responses) + 1 - k])]

\* for _, response := range badRequestResponses { rejections = append(...) }
RenderAll(responses) == [k \in 1..Len(responses) |-> String(responses[k])]

\* if status == http.StatusBadRequest { ... }
BadRequestBranch(body) ==
    LET d == UnmarshalBadRequests(body) IN
    IF ~d.ok
    THEN [rejections |-> NilSlice, err |-> Wrap("json", "could not unmarshal data")]
    ELSE [rejections |-> Slice(RenderAll(d.val)), err |-> NoErr]

\* PushResponseBranch with the error of json.Unmarshal dropped
PushResponseBranchUnchecked(body) ==
    LET d == UnmarshalPushResponse(body) IN
    IF d.val.Rejected
    THEN [rejections |-> d.val.Rejections, err |-> NoErr]
    ELSE [rejections |-> NilSlice, err |-> NoErr]

\* var pushResponse PushResponse ... return nil, nil
PushResponseBranch(body) ==
    LET d == UnmarshalPushResponse(body) IN
    IF ~d.ok
    THEN [rejections |-> NilSlice, err |-> Wrap("json", "could not unmarshal data")]
    ELSE IF d.val.Rejected
    THEN [rejections |-> d.val.Rejections, err |-> NoErr]
    ELSE [rejections |-> NilSlice, err |-> NoErr]

\* PushReturn with the release's title put in front of the reasons
PushReturnOfRelease(st, body, rel) ==
    LET r == IF st = StatusBadRequest THEN BadRequestBranch(body)
             ELSE PushResponseBranch(body)
    IN IF r.err = NoErr /\ ~r.rejections.nil
       THEN [r EXCEPT !.rejections = Slice(<<rel.Title>> \o r.rejections.items)]
       ELSE r

\* what Push returns for a response postBody delivered without error
PushReturn(st, body, rel) ==
    IF st = StatusBadRequest THEN BadRequestBranch(body) ELSE PushResponseBranch(body)

\* what Push writes through c.Log for that response
PushLog(st, body, rel) ==
    {[msg |-> "readarr release/push status", status |-> st, response |-> body]}
    \cup
    IF st # StatusBadRequest /\ UnmarshalPushResponse(body).ok
       /\ UnmarshalPushResponse(body).val.Rejected
    THEN {[msg |-> "readarr release/push rejected", title |-> rel.Title,
           reasons |-> Join(UnmarshalPushResponse(body).val.Rejections.items, ", ")]}
    ELSE {}

(***************************************************************************)
(* The Push invocations.                                                   *)
(***************************************************************************)
\* Push is entered and calls c.postBody(ctx, "release/push", release)
Call(i) ==
    /\ pc[i] = "start"
    /\ \E rel \in Releases : release' = [release EXCEPT ![i] = rel]
    /\ requests' = [requests EXCEPT ![i] = @ + 1]
    /\ pc' = [pc EXCEPT ![i] = "waiting"]
    /\ UNCHANGED <<status, res, err, ret, log>>
    /\ UNCHANGED parseVars

\* postBody returns the downstream application's response
Respond(i, R) ==
    /\ pc[i] = "waiting"
    /\ \E r \in R :
          /\ status' = [status EXCEPT ![i] = r[1]]
          /\ res' = [res EXCEPT ![i] = r[2]]
    /\ err' = [err EXCEPT ![i] = NoErr]
    /\ pc' = [pc EXCEPT ![i] = "returned"]
    /\ UNCHANGED <<release, ret, requests, log>>
    /\ UNCHANGED parseVars

\* postBody returns an error: the request could not be made or the response
\* not read; whatever status and body come with the error
TransportFail(i, R) ==
    /\ pc[i] = "waiting"
    /\ \E r \in R \cup {<<0, NoBody>>} :
          /\ status' = [status EXCEPT ![i] = r[1]]
          /\ res' = [res EXCEPT ![i] = r[2]]
    /\ err' = [err EXCEPT ![i] = "could not make request"]
    /\ pc' = [pc EXCEPT ![i] = "returned"]
    /\ UNCHANGED <<release, ret, requests, log>>
    /\ UNCHANGED parseVars

\* ClientTimeout of an http.Client without Timeout: it never fires
NoClientTimeout(i) ==
    /\ pc[i] = "waiting"
    /\ FALSE
    /\ UNCHANGED vars

\* http.Client{Timeout: time.Second * 120}: no response in time, the request
\* is abandoned and postBody returns the error
ClientTimeout(i) ==
    /\ pc[i] = "waiting"
    /\ status' = [status EXCEPT ![i] = 0]
    /\ res' = [res EXCEPT ![i] = NoBody]
    /\ err' = [err EXCEPT ![i] = "Client.Timeout exceeded"]
    /\ pc' = [pc EXCEPT ![i] = "returned"]
    /\ UNCHANGED <<release, ret, requests, log>>
    /\ UNCHANGED parseVars

\* OnPostBodyError that tries the request again instead of returning
RetryOnPostBodyError(i) ==
    /\ pc[i] = "returned"
    /\ err[i] # NoErr
    /\ err' = [err EXCEPT ![i] = NoErr]
    /\ pc' = [pc EXCEPT ![i] = "start"]
    /\ UNCHANGED <<release, status, res, ret, requests, log>>
    /\ UNCHANGED parseVars

\* if err != nil { return nil, errors.Wrap(err, ...) }
OnPostBodyError(i) ==
    /\ pc[i] = "returned"
    /\ err[i] # NoErr
    /\ ret' = [ret EXCEPT ![i] =
                 [rejections |-> NilSlice,
                  err |-> Wrap(err[i], "could not push release to readarr")]]
    /\ pc' = [pc EXCEPT ![i] = "done"]
    /\ UNCHANGED <<release, status, res, err, requests, log>>
    /\ UNCHANGED parseVars

\* the rest of Push: log, decode by status, return
Interpret(i) ==
    /\ pc[i] = "returned"
    /\ err[i] = NoErr
    /\ ret' = [ret EXCEPT ![i] = PushReturn(status[i], res[i], release[i])]
    /\ log' = log \cup PushLog(status[i], res[i], release[i])
    /\ pc' = [pc EXCEPT ![i] = "done"]
    /\ UNCHANGED <<release, status, res, err, requests>>
    /\ UNCHANGED parseVars

InitPush ==
    /\ pc = [i \in Pushes |-> "start"]
    /\ release = [i \in Pushes |-> NoRelease]
    /\ status = [i \in Pushes |-> 0]
    /\ res = [i \in Pushes |-> NoBody]
    /\ err = [i \in Pushes |-> NoErr]
    /\ ret = [i \in Pushes |-> NoReturn]
    /\ requests = [i \in Pushes |-> 0]
    /\ log = {}

InitParseIdle ==
    /\ phase = "idle"
    /\ line = <<>>
    /\ rsskey = ""
    /\ matched = [ok |-> FALSE, vars |-> <<>>]   \* NoMatch
    /\ url = ""

Init == InitPush /\ InitParseIdle

Next ==
    \E i \in Pushes :
        \/ Call(i)
        \/ Respond(i, ConcResponses)
        \/ TransportFail(i, ConcFailResponses)
        \/ ClientTimeout(i)
        \/ OnPostBodyError(i)
        \/ Interpret(i)

Spec == Init /\ [][Next]_vars

\* The client timeout fires if the request is still outstanding, and a running
\* Push goes on to its return.
LiveSpec ==
    /\ Init /\ [][Next]_vars
    /\ \A i \in Pushes : /\ WF_vars(ClientTimeout(i))
                         /\ WF_vars(OnPostBodyError(i))
                         /\ WF_vars(Interpret(i))

\* One invocation, every response.
PushNext ==
    \/ Call(1)
    \/ Respond(1, Responses)
    \/ TransportFail(1, Responses)
    \/ ClientTimeout(1)
    \/ OnPostBodyError(1)
    \/ Interpret(1)

PushSpec == Init /\ [][PushNext]_vars

(***************************************************************************)
(* The PolishTracker definition (polishtracker.yaml).  Text is a sequence  *)
(* of one-character strings, so that every space of a line and of the      *)
(* pattern is there to be matched.                                         *)
(***************************************************************************)
RECURSIVE Str(_)
\* the string a sequence of characters spells
Str(cs) ==
    IF cs = <<>> THEN ""
    ELSE IF Len(cs) = 1 THEN cs[1]
    ELSE Str(SubSeq(cs, 1, Len(cs) \div 2))
         \o Str(SubSeq(cs, Len(cs) \div 2 + 1, Len(cs)))

Min(S) == CHOOSE x \in S : \A y \in S : x <= y
Max(S) == CHOOSE x \in S : \A y \in S : y <= x

\* the positions of s, in order
Indices(s) == [k \in 1..Len(s) |-> k]

\* settings: - name: rsskey
settings == {"rsskey"}

\* parse.lines[0].pattern
pattern ==
    <<":",":",":"," ","P","o","l","i","s","h","T","r","a","c","k","e","r"," ",
      ":",":",":"," "," ","T","o","r","r","e","n","t"," ","\\","("," ","(",
      ".","*",")"," ","\\",")"," "," ","\\","|","\\","|"," "," ","K","a","t",
      "e","g","o","r","i","a",":"," ","\\","("," ","(",".","*",")"," ","\\",
      ")"," "," ","\\","|","\\","|"," "," ","R","o","z","m","i","a","r",":",
      " ","\\","("," ","(",".","*",")"," ","\\",")"," "," ","\\","|","\\","|",
      " "," ","L","i","n","k",":"," ","\\","("," ","(","h","t","t","p","s",
      ":","/","/",".","*",")","/","t","o","r","r","e","n","t","s","/","(",
      "\\","d","+",")"," ","\\",")">>

\* lineVars with category and torrentSize in each other's place
lineVarsSwapped == <<"torrentName", "torrentSize", "category", "baseUrl", "torrentId">>

\* parse.lines[0].vars
lineVars == <<"torrentName", "category", "torrentSize", "baseUrl", "torrentId">>

\* torrenturl with rsskey and torrentId in each other's place
torrenturlSwapped ==
    <<"{","{"," ",".","b","a","s","e","U","r","l"," ","}","}","/","d","o","w",
      "n","r","s","s","/","{","{"," ",".","t","o","r","r","e","n","t","I","d",
      " ","}","}","/","{","{"," ",".","r","s","s","k","e","y"," ","}","}">>

\* parse.match.torrenturl
torrenturl ==
    <<"{","{"," ",".","b","a","s","e","U","r","l"," ","}","}","/","d","o","w",
      "n","r","s","s","/","{","{"," ",".","r","s","s","k","e","y"," ","}","}",
      "/","{","{"," ",".","t","o","r","r","e","n","t","I","d"," ","}","}">>

\* parse.lines[0].test
TestLine1 ==
    <<":",":",":"," ","P","o","l","i","s","h","T","r","a","c","k","e","r"," ",
      ":",":",":"," "," ","T","o","r","r","e","n","t"," ","("," ","S","o","m",
      "e",".","M","o","v","i","e",".","2","0","1","7",".","P","L","S","U","B",
      ".","1","0","8","0","p",".","B","D","R","i","p",".","x","2","6","4","-",
      "G","R","O","U","P"," ",")"," "," ","|","|"," "," ","K","a","t","e","g",
      "o","r","i","a",":"," ","("," ","m","o","v","i","e","s"," ","H","D"," ",
      ")"," "," ","|","|"," "," ","R","o","z","m","i","a","r",":"," ","("," ",
      "2",".","1","4"," ","G","B"," ",")"," "," ","|","|"," "," ","L","i","n",
      "k",":"," ","("," ","h","t","t","p","s",":","/","/","p","t","e",".","n",
      "u","/","t","o","r","r","e","n","t","s","/","0","0","0","0","0","0"," ",
      ")"," "," ","|","|"," "," ","W","i","e","c","e","j",":"," ","("," ","h",
      "t","t","p",":","/","/","w","w","w",".","f","i","l","m","w","e","b",".",
      "p","l","/","f","i","l","m","?","i","d","=","0","0","0","0","0","0"," ",
      ")">>

TestLine2 ==
    <<":",":",":"," ","P","o","l","i","s","h","T","r","a","c","k","e","r"," ",
      ":",":",":"," "," ","T","o","r","r","e","n","t"," ","("," ","S","o","m",
      "e",".","O","t","h","e","r",".","M","o","v","i","e",".","1","9","8","5",
      ".","i","N","T","E","R","N","A","L",".","B","D","R","i","p",".","x","2",
      "6","4","-","G","R","O","U","P"," ",")"," "," ","|","|"," "," ","K","a",
      "t","e","g","o","r","i","a",":"," ","("," ","m","o","v","i","e","s"," ",
      "S","D"," ",")"," "," ","|","|"," "," ","R","o","z","m","i","a","r",":",
      " ","("," ","1",".","1","5"," ","G","B"," ",")"," "," ","|","|"," "," ",
      "L","i","n","k",":"," ","("," ","h","t","t","p","s",":","/","/","p","t",
      "e",".","n","u","/","t","o","r","r","e","n","t","s","/","0","0","0","0",
      "0","0"," ",")">>

TestLine3 ==
    <<":",":",":"," ","P","o","l","i","s","h","T","r","a","c","k","e","r"," ",
      ":",":",":"," "," ","T","o","r","r","e","n","t"," ","("," ","S","o","m",
      "e",".","O","t","h","e","r",".","M","o","v","i","e",".","1","9","8","5",
      ".","i","N","T","E","R","N","A","L",".","7","2","0","p",".","B","l","u",
      "R","a","y",".","x","2","6","4","-","G","R","O","U","P"," ",")"," "," ",
      "|","|"," "," ","K","a","t","e","g","o","r","i","a",":"," ","("," ","m",
      "o","v","i","e","s"," ","H","D"," ",")"," "," ","|","|"," "," ","R","o",
      "z","m","i","a","r",":"," ","("," ","5",".","0","2"," ","G","B"," ",")",
      " "," ","|","|"," "," ","L","i","n","k",":"," ","("," ","h","t","t","p",
      "s",":","/","/","p","t","e",".","n","u","/","t","o","r","r","e","n","t",
      "s","/","0","0","0","0","0","0"," ",")">>

test == <<TestLine1, TestLine2, TestLine3>>

(***************************************************************************)
(* Announce lines and settings the pipeline is run on.                     *)
(***************************************************************************)
\* the example line with one space where the definition's lines have two
SpecExampleLine ==
    <<":",":",":"," ","P","o","l","i","s","h","T","r","a","c","k","e","r"," ",
      ":",":",":"," ","T","o","r","r","e","n","t"," ","("," ","S","o","m","e",
      ".","M","o","v","i","e",".","2","0","1","7",".","P","L","S","U","B",".",
      "1","0","8","0","p",".","B","D","R","i","p",".","x","2","6","4","-","G",
      "R","O","U","P"," ",")"," ","|","|"," ","K","a","t","e","g","o","r","i",
      "a",":"," ","("," ","m","o","v","i","e","s"," ","H","D"," ",")"," ","|",
      "|"," ","R","o","z","m","i","a","r",":"," ","("," ","2",".","1","4"," ",
      "G","B"," ",")"," ","|","|"," ","L","i","n","k",":"," ","("," ","h","t",
      "t","p","s",":","/","/","p","t","e",".","n","u","/","t","o","r","r","e",
      "n","t","s","/","0","0","0","0","0","0"," ",")">>

NoiseLine ==
    <<"W","e","l","c","o","m","e"," ","t","o"," ","#","p","t","-","a","n","n",
      "o","u","n","c","e">>

NoPrefixLine ==
    <<":",":",":"," "," ","T","o","r","r","e","n","t"," ","("," ","A",".","B",
      "-","C"," ",")"," "," ","|","|"," "," ","K","a","t","e","g","o","r","i",
      "a",":"," ","("," ","t","v"," ",")"," "," ","|","|"," "," ","R","o","z",
      "m","i","a","r",":"," ","("," ","1"," ","G","B"," ",")"," "," ","|","|",
      " "," ","L","i","n","k",":"," ","("," ","h","t","t","p","s",":","/","/",
      "p","t","e",".","n","u","/","t","o","r","r","e","n","t","s","/","1","7",
      " ",")">>

LeadingTextLine ==
    <<"<","P","T","-","B","O","T",">"," ",":",":",":"," ","P","o","l","i","s",
      "h","T","r","a","c","k","e","r"," ",":",":",":"," "," ","T","o","r","r",
      "e","n","t"," ","("," ","A",".","B","-","C"," ",")"," "," ","|","|"," ",
      " ","K","a","t","e","g","o","r","i","a",":"," ","("," ","t","v"," ",")",
      " "," ","|","|"," "," ","R","o","z","m","i","a","r",":"," ","("," ","1",
      " ","G","B"," ",")"," "," ","|","|"," "," ","L","i","n","k",":"," ","(",
      " ","h","t","t","p","s",":","/","/","p","t","e",".","n","u","/","t","o",
      "r","r","e","n","t","s","/","1","7"," ",")">>

BadIdLine ==
    <<":",":",":"," ","P","o","l","i","s","h","T","r","a","c","k","e","r"," ",
      ":",":",":"," "," ","T","o","r","r","e","n","t"," ","("," ","A",".","B",
      "-","C"," ",")"," "," ","|","|"," "," ","K","a","t","e","g","o","r","i",
      "a",":"," ","("," ","t","v"," ",")"," "," ","|","|"," "," ","R","o","z",
      "m","i","a","r",":"," ","("," ","1"," ","G","B"," ",")"," "," ","|","|",
      " "," ","L","i","n","k",":"," ","("," ","h","t","t","p","s",":","/","/",
      "p","t","e",".","n","u","/","t","o","r","r","e","n","t","s","/","x","1",
      "7"," ",")">>

TwoTorrentsLine ==
    <<":",":",":"," ","P","o","l","i","s","h","T","r","a","c","k","e","r"," ",
      ":",":",":"," "," ","T","o","r","r","e","n","t"," ","("," ","A",".","B",
      "-","C"," ",")"," "," ","|","|"," "," ","K","a","t","e","g","o","r","i",
      "a",":"," ","("," ","t","v"," ",")"," "," ","|","|"," "," ","R","o","z",
      "m","i","a","r",":"," ","("," ","1"," ","G","B"," ",")"," "," ","|","|",
      " "," ","L","i","n","k",":"," ","("," ","h","t","t","p","s",":","/","/",
      "p","t","e",".","n","u","/","t","o","r","r","e","n","t","s","/","t","o",
      "r","r","e","n","t","s","/","1","7"," ",")">>

PaddedLine ==
    <<":",":",":"," ","P","o","l","i","s","h","T","r","a","c","k","e","r"," ",
      ":",":",":"," "," ","T","o","r","r","e","n","t"," ","("," "," ","A"," ",
      ")"," ","("," ","B"," "," ",")"," "," ","|","|"," "," ","K","a","t","e",
      "g","o","r","i","a",":"," ","("," ","t","v"," "," ",")"," "," ","|","|",
      " "," ","R","o","z","m","i","a","r",":"," ","("," ","1"," ","G","B"," ",
      ")"," "," ","|","|"," "," ","L","i","n","k",":"," ","("," ","h","t","t",
      "p","s",":","/","/","p","t","e",".","n","u","/","t","o","r","r","e","n",
      "t","s","/","4","2"," ",")">>

OtherHostLine ==
    <<":",":",":"," ","P","o","l","i","s","h","T","r","a","c","k","e","r"," ",
      ":",":",":"," "," ","T","o","r","r","e","n","t"," ","("," ","A",".","B",
      "-","C"," ",")"," "," ","|","|"," "," ","K","a","t","e","g","o","r","i",
      "a",":"," ","("," ","m","u","s","i","c"," ",")"," "," ","|","|"," "," ",
      "R","o","z","m","i","a","r",":"," ","("," ","3"," ","M","B"," ",")"," ",
      " ","|","|"," "," ","L","i","n","k",":"," ","("," ","h","t","t","p","s",
      ":","/","/","p","o","l","i","s","h","t","r","a","c","k","e","r",".","n",
      "e","t","/","t","o","r","r","e","n","t","s","/","4","2","4","2","4","2",
      " ",")">>

Lines ==
    { TestLine1, TestLine2, TestLine3, SpecExampleLine, NoiseLine, NoPrefixLine,
      LeadingTextLine, BadIdLine, TwoTorrentsLine, PaddedLine, OtherHostLine }

RssKeys == {"ABC123", "", "s3cr3t", "{{ .torrentId }}"}

(***************************************************************************)
(* The regular expression engine (Go regexp: leftmost match, greedy        *)
(* repetition, no anchoring unless the pattern asks for it), for the       *)
(* syntax the definition uses: literals, \-escapes, \d, ., *, +, groups.   *)
(***************************************************************************)
Digits == {"0", "1", "2", "3", "4", "5", "6", "7", "8", "9"}

RECURSIVE Escaped(_, _)
\* is p[k] the character a backslash escapes
Escaped(p, k) == k > 1 /\ p[k - 1] = "\\" /\ ~Escaped(p, k - 1)

\* is p[k] a repetition sign (of the atom that ends at k-1)
IsQuant(p, k) == k <= Len(p) /\ p[k] \in {"*", "+"} /\ ~Escaped(p, k)

\* the token of the atom (or group parenthesis) that starts at k
Atom(p, k) ==
    IF p[k] = "(" THEN [t |-> "open"]
    ELSE IF p[k] = ")" THEN [t |-> "close"]
    ELSE LET esc  == p[k] = "\\" /\ k < Len(p)
             c    == IF esc THEN p[k + 1] ELSE p[k]
             n    == IF esc THEN k + 2 ELSE k + 1
             kind == IF esc /\ c = "d" THEN "digit"
                     ELSE IF ~esc /\ c = "." THEN "any"
                     ELSE "lit"
         IN [t |-> kind, c |-> c, q |-> IF IsQuant(p, n) THEN p[n] ELSE "1"]

\* the pattern's atoms, in order
Atoms(p) ==
    LET starts == SelectSeq(Indices(p), LAMBDA k : ~Escaped(p, k) /\ ~IsQuant(p, k))
    IN [j \in 1..Len(starts) |-> Atom(p, starts[j])]

\* a literal character that is not repeated
Plain(tok) == tok.t = "lit" /\ tok.q = "1"

\* the pattern's tokens: as Atoms, each run of plain literals as one token
Compile(p) ==
    LET as     == Atoms(p)
        starts == SelectSeq(Indices(as),
                            LAMBDA j : ~Plain(as[j]) \/ j = 1 \/ ~Plain(as[j - 1]))
        end(j) == Min({e \in j..Len(as) : e = Len(as) \/ ~Plain(as[e + 1])})
    IN [i \in 1..Len(starts) |->
          IF Plain(as[starts[i]])
          THEN [t |-> "lits",
                cs |-> [m \in 1..(end(starts[i]) - starts[i] + 1) |->
                          as[starts[i] + m - 1].c]]
          ELSE as[starts[i]]]

\* does the atom match character ch
AtomOk(tok, ch) ==
    IF tok.t = "digit" THEN ch \in Digits
    ELSE IF tok.t = "any" THEN ch # "\n"
    ELSE ch = tok.c

\* how many characters from pos on the atom matches in a row
Run(tok, s, pos) ==
    Min({e \in pos..(Len(s) + 1) : e = Len(s) + 1 \/ ~AtomOk(tok, s[e])}) - pos

NoSubmatch == [ok |-> FALSE, caps |-> <<>>]

RECURSIVE MatchHere(_, _, _, _, _)
\* match tokens k.. at pos; caps collects the groups' start and end positions.
\* A repeated atom takes the longest run that lets the rest match.
MatchHere(toks, k, s, pos, caps) ==
    IF k > Len(toks) THEN [ok |-> TRUE, caps |-> caps]
    ELSE IF toks[k].t \in {"open", "close"}
    THEN MatchHere(toks, k + 1, s, pos, Append(caps, pos))
    ELSE IF toks[k].t = "lits"
    THEN IF /\ pos + Len(toks[k].cs) - 1 <= Len(s)
            /\ \A m \in 1..Len(toks[k].cs) : s[pos + m - 1] = toks[k].cs[m]
         THEN MatchHere(toks, k + 1, s, pos + Len(toks[k].cs), caps)
         ELSE NoSubmatch
    ELSE IF toks[k].q = "1"
    THEN IF pos <= Len(s) /\ AtomOk(toks[k], s[pos])
         THEN MatchHere(toks, k + 1, s, pos + 1, caps)
         ELSE NoSubmatch
    ELSE LET least == IF toks[k].q = "+" THEN 1 ELSE 0
             good  == {n \in least..Run(toks[k], s, pos) :
                          MatchHere(toks, k + 1, s, pos + n, caps).ok}
         IN IF good = {} THEN NoSubmatch
            ELSE MatchHere(toks, k + 1, s, pos + Max(good), caps)

\* the leftmost position the pattern matches at
Search(toks, s) ==
    LET at == {st \in 1..(Len(s) + 1) : MatchHere(toks, 1, s, st, <<>>).ok}
    IN IF at = {} THEN NoSubmatch ELSE MatchHere(toks, 1, s, Min(at), <<>>)

\* regexp.FindStringSubmatch: the groups' texts, or no match
FindStringSubmatch(p, s) ==
    LET r == Search(Compile(p), s) IN
    IF ~r.ok THEN [ok |-> FALSE, groups |-> <<>>]
    ELSE [ok |-> TRUE,
          groups |-> [g \in 1..(Len(r.caps) \div 2) |->
                        Str(SubSeq(s, r.caps[2 * g - 1], r.caps[2 * g] - 1))]]

(***************************************************************************)
(* Line Matcher and Template Renderer.                                     *)
(***************************************************************************)
NoMatch == [ok |-> FALSE, vars |-> <<>>]

\* the capture groups zipped, in order, with the declared variable names
Zip(names, groups) ==
    [n \in {names[k] : k \in 1..Len(names)} |->
        groups[CHOOSE k \in 1..Len(names) : names[k] = n]]

\* match(definition, line)
Match(p, names, s) ==
    LET m == FindStringSubmatch(p, s) IN
    IF m.ok /\ Len(m.groups) = Len(names)
    THEN [ok |-> TRUE, vars |-> Zip(names, m.groups)]
    ELSE NoMatch

IsOpen(tpl, k) == k + 1 <= Len(tpl) /\ tpl[k] = "{" /\ tpl[k + 1] = "{"

\* the first "{{" at or after k, Len(tpl)+1 when there is none
OpenAt(tpl, k) ==
    Min({o \in k..(Len(tpl) + 1) : o = Len(tpl) + 1 \/ IsOpen(tpl, o)})

\* the first "}}" at or after k, Len(tpl)+1 when there is none
CloseAt(tpl, k) ==
    Min({e \in k..(Len(tpl) + 1) :
            e = Len(tpl) + 1 \/ (e < Len(tpl) /\ tpl[e] = "}" /\ tpl[e + 1] = "}")})

\* the name in "{{ .name }}": blanks and the leading dot dropped
Name(cs) == Str(SelectSeq(cs, LAMBDA c : c \notin {" ", "."}))

RECURSIVE Placeholders(_, _)
\* the names the template refers to, from position k on
Placeholders(tpl, k) ==
    LET o == OpenAt(tpl, k)
        e == CloseAt(tpl, o + 2)
    IN IF o > Len(tpl) THEN {}
       ELSE {Name(SubSeq(tpl, o + 2, e - 1))} \cup Placeholders(tpl, e + 2)

RECURSIVE Render(_, _, _)
\* render(template, variables and settings) from position k on: the text up
\* to the next placeholder, the placeholder's value (the empty string for a
\* name without a value), then the rest
Render(tpl, values, k) ==
    LET o == OpenAt(tpl, k)
        e == CloseAt(tpl, o + 2)
        n == Name(SubSeq(tpl, o + 2, e - 1))
    IN IF k > Len(tpl) THEN ""
       ELSE IF o > Len(tpl) THEN Str(SubSeq(tpl, k, Len(tpl)))
       ELSE Str(SubSeq(tpl, k, o - 1))
            \o (IF n \in DOMAIN values THEN values[n] ELSE "")
            \o Render(tpl, values, e + 2)

\* the captured variables together with the operator's settings
Values(captured, key) ==
    [n \in DOMAIN captured \cup settings |->
        IF n \in settings THEN key ELSE captured[n]]

(***************************************************************************)
(* The announce pipeline: one line in, one torrenturl out.                 *)
(***************************************************************************)
MatchLine ==
    /\ phase = "line"
    /\ matched' = Match(pattern, lineVars, line)
    /\ phase' = "matched"
    /\ UNCHANGED <<line, rsskey, url>>
    /\ UNCHANGED pushVars

RenderTorrentUrl ==
    /\ phase = "matched"
    /\ matched.ok
    /\ url' = Render(torrenturl, Values(matched.vars, rsskey), 1)
    /\ phase' = "rendered"
    /\ UNCHANGED <<line, rsskey, matched>>
    /\ UNCHANGED pushVars

ParseInit ==
    /\ InitPush
    /\ phase = "line"
    /\ line \in Lines
    /\ rsskey \in RssKeys
    /\ matched = NoMatch
    /\ url = ""

ParseNext == MatchLine \/ RenderTorrentUrl

ParseSpec == ParseInit /\ [][ParseNext]_vars

(***************************************************************************)
(* Properties.                                                             *)
(***************************************************************************)
\* PushOutcome of a returned ([]string, error) pair
Outcome(r) ==
    IF r.err = "unauthorized: bad credentials" THEN "Unauthorized"
    ELSE IF r.err # NoErr THEN "Error"
    ELSE IF r.rejections.nil THEN "Accepted"
    ELSE "Rejected"

\* invocation i has returned, and postBody had delivered a response to it
Answered(i) == pc[i] = "done" /\ err[i] = NoErr

\* the strings of a JSON reasons list (none when the key is absent or null)
ReasonsOf(v) ==
    IF v.kind = "list" THEN [k \in 1..Len(v.items) |-> v.items[k].val] ELSE <<>>

\* C1: a response with status 401 yields Unauthorized, whatever its body.
C1_Status401IsUnauthorized ==
    \A i \in Pushes :
        Answered(i) /\ status[i] = StatusUnauthorized
            => Outcome(ret[i]) = "Unauthorized"

\* C2: status 400 with a body that is a list of N rejection objects yields
\* Rejected without error, with exactly N reasons, the k-th the description
\* of the k-th object.
C2_BadRequestReasonsInOrder ==
    \A i \in Pushes :
        ( /\ Answered(i)
          /\ status[i] = StatusBadRequest
          /\ res[i].kind = "list"
          /\ \A k \in 1..Len(res[i].items) : res[i].items[k] \in RejectionObjects )
        => /\ Outcome(ret[i]) = "Rejected"
           /\ Len(ret[i].rejections.items) = Len(res[i].items)
           /\ \A k \in 1..Len(res[i].items) :
                 ret[i].rejections.items[k] =
                     "[" \o StringField(res[i].items[k].propertyName).val \o "] "
                         \o StringField(res[i].items[k].errorMessage).val

C2_TwoRejectionsReturned ==
    \E i \in Pushes :
        /\ Answered(i)
        /\ status[i] = StatusBadRequest
        /\ res[i] = JList(<<JObj(JAbsent, JAbsent, JStr("downloadUrl"), JAbsent),
                            JObj(JAbsent, JAbsent, JStr("title"), JStr("Unable to parse"))>>)
        /\ ret[i] = [rejections |-> Slice(<<"[downloadUrl] ", "[title] Unable to parse">>),
                     err |-> NoErr]

\* C3: for a status other than 400 and 401 and a body that parses as an
\* object, the outcome is Rejected with exactly the body's reasons if the
\* rejected flag is true, and Accepted if it is false or absent.
C3_RejectedIffFlag ==
    \A i \in Pushes :
        ( /\ Answered(i)
          /\ status[i] \notin {StatusBadRequest, StatusUnauthorized}
          /\ res[i].kind = "object"
          /\ UnmarshalPushResponse(res[i]).ok )
        => IF res[i].rejected = JBool(TRUE)
           THEN /\ Outcome(ret[i]) = "Rejected"
                /\ ret[i].rejections.items = ReasonsOf(res[i].rejections)
           ELSE Outcome(ret[i]) = "Accepted"

\* C4: a body that does not parse as the shape its status asks for (a list
\* for 400, an object otherwise) yields Error and no reasons.
C4_UnexpectedShapeIsError ==
    \A i \in Pushes :
        ( /\ Answered(i)
          /\ \/ res[i].kind = "invalid"
             \/ status[i] = StatusBadRequest /\ res[i].kind = "object"
             \/ status[i] # StatusBadRequest /\ res[i].kind = "list"
             \/ status[i] = StatusBadRequest /\ ~UnmarshalBadRequests(res[i]).ok
             \/ status[i] # StatusBadRequest /\ ~UnmarshalPushResponse(res[i]).ok )
        => /\ Outcome(ret[i]) = "Error"
           /\ ret[i].rejections = NilSlice

C4_ObjectAtBadRequestIsError ==
    \E i \in Pushes :
        /\ Answered(i)
        /\ status[i] = StatusBadRequest
        /\ res[i] = JObj(JBool(FALSE), JAbsent, JAbsent, JAbsent)
        /\ Outcome(ret[i]) = "Error"
        /\ ret[i].rejections = NilSlice

\* C5: a response whose status is outside {200, 201, 400, 401} yields Error,
\* whatever its body.
C5_OtherStatusIsError ==
    \A i \in Pushes :
        Answered(i) /\ status[i] \notin {200, 201, StatusBadRequest, StatusUnauthorized}
            => Outcome(ret[i]) = "Error"

\* C6: every Push that has made its request returns; when the transport fails
\* or times out it returns nil reasons and the wrapped error, whatever status
\* and body came with the failure.
C6_PushReturnsErrorOnFailure ==
    \A i \in Pushes :
        /\ (pc[i] = "waiting") ~> (pc[i] = "done")
        /\ [](pc[i] = "done" /\ err[i] # NoErr
                => /\ Outcome(ret[i]) = "Error"
                   /\ ret[i] = [rejections |-> NilSlice,
                                err |-> "could not push release to readarr: " \o err[i]])

C6_TimedOutPushReturned ==
    \E i \in Pushes :
        /\ pc[i] = "done"
        /\ err[i] = "Client.Timeout exceeded"
        /\ Outcome(ret[i]) = "Error"

\* C7: one Push invocation calls the release/push transport at most once,
\* whatever its outcome.
C7_AtMostOneRequest ==
    \A i \in Pushes :
        /\ requests[i] <= 1
        /\ pc[i] # "start" => requests[i] = 1

C7_FailedPushMadeOneRequest ==
    \E i \in Pushes :
        /\ pc[i] = "done"
        /\ Outcome(ret[i]) = "Error"
        /\ err[i] # NoErr
        /\ requests[i] = 1

C8_TorrentUrlRendered ==
    /\ Placeholders(torrenturl, 1)
          \subseteq {lineVars[k] : k \in 1..Len(lineVars)} \cup settings
    /\ phase = "rendered"
          => /\ url = matched.vars["baseUrl"] \o "/downrss/" \o rsskey \o "/"
                          \o matched.vars["torrentId"]
             /\ ( /\ matched.vars["baseUrl"] = "https://pte.nu"
                  /\ matched.vars["torrentId"] = "000000"
                  /\ rsskey = "ABC123" )
                => url = "https://pte.nu/downrss/ABC123/000000"

C8_ExampleUrlRendered ==
    /\ phase = "rendered"
    /\ matched.vars["baseUrl"] = "https://pte.nu"
    /\ matched.vars["torrentId"] = "000000"
    /\ rsskey = "ABC123"
    /\ url = "https://pte.nu/downrss/ABC123/000000"

\* the variables of the example announce
ExampleVars ==
    [torrentName |-> "Some.Movie.2017.PLSUB.1080p.BDRip.x264-GROUP",
     category |-> "movies HD", torrentSize |-> "2.14 GB",
     baseUrl |-> "https://pte.nu", torrentId |-> "000000"]

\* C9 as stated: the example line written with single spaces matches the
\* pattern and yields the example's five variables.
C9_SingleSpacedExampleMatches ==
    phase # "line" /\ line = SpecExampleLine
        => matched = [ok |-> TRUE, vars |-> ExampleVars]

\* C9 as amended: each test line of the definition, written as in the
\* definition (two blanks after ":::" and around "||"), yields one value per
\* declared variable, the first one the example's five values; blanks inside
\* a captured value are kept; the example line written with single spaces
\* does not match.
C9_TestLinesMatch ==
    phase # "line" =>
        /\ line = TestLine1 => matched = [ok |-> TRUE, vars |-> ExampleVars]
        /\ line = TestLine2 =>
              matched = [ok |-> TRUE,
                         vars |-> [torrentName |-> "Some.Other.Movie.1985.iNTERNAL.BDRip.x264-GROUP",
                                   category |-> "movies SD", torrentSize |-> "1.15 GB",
                                   baseUrl |-> "https://pte.nu", torrentId |-> "000000"]]
        /\ line = TestLine3 =>
              matched = [ok |-> TRUE,
                         vars |-> [torrentName |-> "Some.Other.Movie.1985.iNTERNAL.720p.BluRay.x264-GROUP",
                                   category |-> "movies HD", torrentSize |-> "5.02 GB",
                                   baseUrl |-> "https://pte.nu", torrentId |-> "000000"]]
        /\ line = PaddedLine =>
              /\ matched.ok
              /\ matched.vars["torrentName"] = " A ) ( B "
              /\ matched.vars["category"] = "tv "
        /\ line = SpecExampleLine => matched = NoMatch

C9_FirstTestLineMatched ==
    /\ phase = "matched"
    /\ line = TestLine1
    /\ matched.ok
    /\ matched.vars = ExampleVars

====
